---------------------------- MODULE Spec2Model ----------------------------
(***************************************************************************)
(* A model of the ONNX operator-consistency test suite                     *)
(* (test/onnx/test_op_consistancy.py): the construction of the suite       *)
(* (skip_ops decorating the operator registry with the declared skip and   *)
(* xfail rules) and the run of TestConsistency.test_output_match for one   *)
(* (operator, dtype) instance at a time, sub-test by sub-test.             *)
(*                                                                         *)
(* The exporter, the ONNX checker, onnxruntime and the sample generators   *)
(* are external: what they return or raise is a nondeterministic choice.   *)
(* The outcome accounting is that of Python's unittest (skip,              *)
(* expectedFailure, subTest, assertRaises), which the module calls.        *)
(***************************************************************************)
EXTENDS Integers, Sequences, FiniteSets, TLC

(***************************************************************************)
(* Python's None.  An Optional collection of dtypes is a set of dtype      *)
(* names, or NoneDtypes when it is None.                                   *)
(***************************************************************************)
None == "None"

NoneDtypes == {"None"}

(***************************************************************************)
(* Opsets                                                                  *)
(***************************************************************************)
\* The min onnx opset version to test for
MIN_ONNX_OPSET_VERSION == 9

\* torch.onnx._constants.ONNX_MAX_OPSET: imported, its value is not set in
\* the test module.  Any value >= 13 shows both sides of the sqrt rule.
ONNX_MAX_OPSET == 17

\* The max onnx opset version to test for
MAX_ONNX_OPSET_VERSION == ONNX_MAX_OPSET

\* range(MIN_ONNX_OPSET_VERSION, MAX_ONNX_OPSET_VERSION + 1), in order
TESTED_OPSETS ==
    [i \in 1..(MAX_ONNX_OPSET_VERSION + 1 - MIN_ONNX_OPSET_VERSION) |->
        MIN_ONNX_OPSET_VERSION + i - 1]

ORT_PROVIDERS == <<"CPUExecutionProvider">>

(***************************************************************************)
(* Dtypes                                                                  *)
(***************************************************************************)
SUPPORTED_DTYPES ==
    {"bool",
     "uint8", "int8", "int16", "int32", "int64",
     "float16", "float32", "float64", "bfloat16",
     "qint8", "quint8",
     "complex32", "complex64", "complex128"}

BOOL_TYPES == {"bool"}

INT_TYPES == {"int8", "int16", "int32", "int64", "uint8"}

QINT_TYPES == {"qint8", "quint8"}

FLOAT_TYPES == {"float16", "float32", "float64", "bfloat16"}

COMPLEX_TYPES == {"complex32", "complex64", "complex128"}

(***************************************************************************)
(* DecorateMeta, xfail, skip                                               *)
(***************************************************************************)
DecorateMeta(op_name, variant_name, decorator, device_type, dtypes, reason) ==
    [op_name |-> op_name, variant_name |-> variant_name,
     decorator |-> decorator, device_type |-> device_type,
     dtypes |-> dtypes, reason |-> reason]

\* decorator=unittest.skip(reason)
skip_decorator == "skip"

\* xfail built with the decorator of skip
xfail_decorator_wrong == "skip"

\* decorator=unittest.expectedFailure
xfail_decorator == "expectedFailure"

\* Expects a OpInfo test to fail.
xfail(op_name, variant_name, device_type, dtypes, reason) ==
    DecorateMeta(op_name, variant_name, xfail_decorator, device_type, dtypes, reason)

\* Skips a test case in OpInfo.
skip(op_name, variant_name, device_type, dtypes, reason) ==
    DecorateMeta(op_name, variant_name, skip_decorator, device_type, dtypes, reason)

(***************************************************************************)
(* XfailOpset.  An opset specification is an int or a comparison function  *)
(* made by opsets_before / opsets_after.                                   *)
(***************************************************************************)
OpsetInt(opset) == [kind |-> "int", opset |-> opset]

\* Returns a comparison function that decides if the given opset is before the specified.
opsets_before(opset) == [kind |-> "before", opset |-> opset]

\* Returns a comparison function that decides if the given opset is after the specified.
opsets_after(opset) == [kind |-> "after", opset |-> opset]

\* compare with the given opset included (<=, >=)
compare_inclusive(opset_spec, other_opset) ==
    IF opset_spec.kind = "before"
        THEN other_opset <= opset_spec.opset
        ELSE other_opset >= opset_spec.opset

\* The compare closure of opsets_before / opsets_after, called on other_opset.
compare(opset_spec, other_opset) ==
    IF opset_spec.kind = "before"
        THEN other_opset < opset_spec.opset
        ELSE other_opset > opset_spec.opset

XfailOpset(op_name, opsets, dtypes, exception, reason) ==
    [op_name |-> op_name, opsets |-> opsets, dtypes |-> dtypes,
     exception |-> exception, reason |-> reason]

contains_opset(self, opset) ==
    \E i \in DOMAIN self.opsets :
        IF self.opsets[i].kind = "int"
            THEN opset = self.opsets[i].opset
            ELSE compare(self.opsets[i], opset)

contains_dtype(self, dtype) ==
    self.dtypes = NoneDtypes \/ dtype \in self.dtypes

\* Returns whether the test should fail for the given opset and dtype.
should_fail(self, opset, dtype) ==
    contains_opset(self, opset) /\ contains_dtype(self, dtype)

(***************************************************************************)
(* The section to modify: the declared rule tables                         *)
(***************************************************************************)
\* Ops to be tested for consistency between onnx and pytorch
ALLOWLIST_OP == {"ceil", "sqrt", "t"}

\* The table with the dtypes of the rule of "t" left out
EXPECTED_SKIPS_OR_FAILS_t_any_dtype ==
    << xfail("ceil", "", None, {"bfloat16", "float64"},
             "Ceil not implemented for f64 and bf64 in onnx runtime"),
       skip("ceil", "", None,
            BOOL_TYPES \cup INT_TYPES \cup QINT_TYPES \cup COMPLEX_TYPES,
            "Not supported by onnx"),
       skip("sqrt", "", None,
            BOOL_TYPES \cup QINT_TYPES \cup COMPLEX_TYPES,
            "Not supported by onnx"),
       xfail("t", "", None, NoneDtypes,
             "Transpose not implemented for bf64 in onnx runtime") >>

\* Expected failures for onnx export.
EXPECTED_SKIPS_OR_FAILS ==
    << xfail("ceil", "", None, {"bfloat16", "float64"},
             "Ceil not implemented for f64 and bf64 in onnx runtime"),
       skip("ceil", "", None,
            BOOL_TYPES \cup INT_TYPES \cup QINT_TYPES \cup COMPLEX_TYPES,
            "Not supported by onnx"),
       skip("sqrt", "", None,
            BOOL_TYPES \cup QINT_TYPES \cup COMPLEX_TYPES,
            "Not supported by onnx"),
       xfail("t", "", None, {"bfloat16"} \cup COMPLEX_TYPES,
             "Transpose not implemented for bf64 in onnx runtime") >>

\* The opset rule of sqrt declared without dtypes: it matches every dtype,
\* the skipped ones too
EXPECTED_OPSET_FAILS_sqrt_any_dtype ==
    << XfailOpset("sqrt", <<opsets_before(13)>>, NoneDtypes, None,
                  "sqrt not defined for bf16 before opset 13") >>

\* Expected opset specific fails for ops that do not support specific opsets
EXPECTED_OPSET_FAILS ==
    << XfailOpset("sqrt", <<opsets_before(13)>>, {"bfloat16"}, None,
                  "sqrt not defined for bf16 before opset 13") >>

(***************************************************************************)
(* Other contents of the section to modify, as an edit of the tables could *)
(* leave them: a rule whose operator or variant is not in the registry,    *)
(* an opset rule that declares an exception, two opset rules for one       *)
(* operator.                                                               *)
(***************************************************************************)
InsertAt(s, k, e) == SubSeq(s, 1, k - 1) \o <<e>> \o SubSeq(s, k, Len(s))

UnresolvedName == skip("sqrtt", "", None, BOOL_TYPES, "Not supported by onnx")

UnresolvedVariant == xfail("t", "batched", None, NoneDtypes, "unspecified")

ToSkipTables ==
    { EXPECTED_SKIPS_OR_FAILS,
      InsertAt(EXPECTED_SKIPS_OR_FAILS, 1, UnresolvedName),
      InsertAt(EXPECTED_SKIPS_OR_FAILS, 3, UnresolvedVariant),
      InsertAt(EXPECTED_SKIPS_OR_FAILS, 5, UnresolvedName) }

OpsetFailTables ==
    { EXPECTED_OPSET_FAILS,
      EXPECTED_OPSET_FAILS \o
        << XfailOpset("sqrtt", <<opsets_before(13)>>, NoneDtypes, None, "unspecified") >>,
      << XfailOpset("sqrt", <<OpsetInt(9), opsets_after(12)>>, NoneDtypes,
                    "RuntimeError", "unspecified") >>,
      << XfailOpset("sqrt", <<opsets_before(13)>>, {"bfloat16"}, None,
                    "sqrt not defined for bf16 before opset 13"),
         XfailOpset("sqrt", <<opsets_after(12)>>, {"float16"}, None,
                    "unspecified") >> }

(***************************************************************************)
(* The operator registry and skip_ops                                      *)
(***************************************************************************)
DecorateInfo(decorators, cls_name, test_name, device_type, dtypes) ==
    [decorators |-> decorators, cls_name |-> cls_name, test_name |-> test_name,
     device_type |-> device_type, dtypes |-> dtypes]

OpInfo(name, variant_test_name, decorators) ==
    [name |-> name, variant_test_name |-> variant_test_name,
     decorators |-> decorators]

\* common_methods_invocations.op_db: the operators the claims name, one
\* operator outside the allowlist, one decoration that belongs to another suite.
op_db ==
    << OpInfo("abs", "", <<>>),
       OpInfo("ceil", "",
              << DecorateInfo("expectedFailure", "TestNNCOpInfo",
                              "test_nnc_correctness", None, NoneDtypes) >>),
       OpInfo("sqrt", "", <<>>),
       OpInfo("t", "", <<>>) >>

\* ops_mapping.get(key): the index in all_opinfos of the OpInfo the dict
\* holds for the key (the last one with that key), 0 for None.
ops_mapping_get(all_opinfos, op_name, variant_name) ==
    LET hits == {i \in DOMAIN all_opinfos :
                    /\ all_opinfos[i].name = op_name
                    /\ all_opinfos[i].variant_test_name = variant_name}
    IN  IF hits = {} THEN 0 ELSE CHOOSE i \in hits : \A j \in hits : j <= i

\* The iteration without the assertion: a rule that resolves to no OpInfo
\* is passed over.
skip_ops_iteration_ignore(all_opinfos, test_case_name, base_test_name, decorate_meta) ==
    LET opinfo == ops_mapping_get(all_opinfos, decorate_meta.op_name,
                                  decorate_meta.variant_name)
    IN  IF opinfo = 0
            THEN [ok |-> TRUE, all_opinfos |-> all_opinfos]
            ELSE [ok |-> TRUE,
                  all_opinfos |->
                    [all_opinfos EXCEPT ![opinfo].decorators =
                        Append(@, DecorateInfo(decorate_meta.decorator, test_case_name,
                                               base_test_name, decorate_meta.device_type,
                                               decorate_meta.dtypes))]]

\* The iteration with the new decoration put in the place of the list
skip_ops_iteration_replace(all_opinfos, test_case_name, base_test_name, decorate_meta) ==
    LET opinfo == ops_mapping_get(all_opinfos, decorate_meta.op_name,
                                  decorate_meta.variant_name)
    IN  IF opinfo = 0
            THEN [ok |-> FALSE, all_opinfos |-> all_opinfos]
            ELSE [ok |-> TRUE,
                  all_opinfos |->
                    [all_opinfos EXCEPT ![opinfo].decorators =
                        << DecorateInfo(decorate_meta.decorator, test_case_name,
                                        base_test_name, decorate_meta.device_type,
                                        decorate_meta.dtypes) >>]]

\* One iteration of the loop of skip_ops on decorate_meta: the assertion
\* (ok) and the registry after it.
skip_ops_iteration(all_opinfos, test_case_name, base_test_name, decorate_meta) ==
    LET opinfo == ops_mapping_get(all_opinfos, decorate_meta.op_name,
                                  decorate_meta.variant_name)
        new_decorator == DecorateInfo(decorate_meta.decorator, test_case_name,
                                      base_test_name, decorate_meta.device_type,
                                      decorate_meta.dtypes)
    IN  IF opinfo = 0
            THEN [ok |-> FALSE, all_opinfos |-> all_opinfos]
            ELSE [ok |-> TRUE,
                  all_opinfos |->
                    [all_opinfos EXCEPT ![opinfo].decorators = Append(@, new_decorator)]]

\* DecorateInfo.is_active(cls_name, test_name, device_type, dtype)
is_active(info, cls_name, test_name, device_type, dtype) ==
    /\ info.cls_name = None \/ info.cls_name = cls_name
    /\ info.test_name = None \/ info.test_name = test_name
    /\ info.device_type = None \/ info.device_type = device_type
    /\ info.dtypes = NoneDtypes \/ dtype \in info.dtypes

\* The decorators of opinfo that the ops decorator applies to the
\* instance of TestConsistency.test_output_match for (cpu, dtype).
active_decorators(opinfo, dtype) ==
    { opinfo.decorators[i].decorators : i \in
        { j \in DOMAIN opinfo.decorators :
            is_active(opinfo.decorators[j], "TestConsistency",
                      "test_output_match", "cpu", dtype) } }

(***************************************************************************)
(* Python exceptions.  assertRaises(cls) takes an exception that is an     *)
(* instance of cls; every exception raised here is an Exception.           *)
(***************************************************************************)
Exceptions == {"RuntimeError", "AssertionError"}

isinstance(exc, cls) == cls = "Exception" \/ exc = cls

(***************************************************************************)
(* torch._refs.special: the values of an element.  An element is NaN, an   *)
(* infinity, a rational n/d in lowest terms, or a multiple (n/d) *         *)
(* log(ln/ld) of a logarithm that is no rational, kept symbolic.           *)
(***************************************************************************)
MaxNum == 3

MaxDen == 4

Value(kind, n, d, ln, ld) ==
    [kind |-> kind, n |-> n, d |-> d, ln |-> ln, ld |-> ld]

NoneValue == Value(None, 0, 1, 1, 1)

nan == Value("nan", 0, 1, 1, 1)

inf == Value("inf", 1, 1, 1, 1)

ninf == Value("inf", -1, 1, 1, 1)

Abs(n) == IF n < 0 THEN -n ELSE n

Sign(n) == IF n < 0 THEN -1 ELSE IF n = 0 THEN 0 ELSE 1

RECURSIVE gcd(_, _)
gcd(m, n) == IF n = 0 THEN m ELSE gcd(n, m % n)

\* The rational n/d, d # 0
Rat(n, d) ==
    LET g == gcd(Abs(n), Abs(d))
    IN  Value("num", (Sign(d) * n) \div g, (Sign(d) * d) \div g, 1, 1)

RatValues == { Rat(n, d) : n \in -MaxNum..MaxNum, d \in 1..MaxDen }

FloatValues == {nan, inf, ninf} \cup RatValues

HalfValues == {nan, inf, ninf} \cup { Rat(n, 2) : n \in -MaxNum..MaxNum }

isnan(x) == x.kind = "nan"

\* -1, 0 or 1: the sign of a value that is not NaN
sign(x) ==
    CASE x.kind = "inf" -> x.n
      [] x.kind = "num" -> Sign(x.n)
      [] x.kind = "log" -> Sign(x.n) * (IF x.ln > x.ld THEN 1 ELSE -1)
      [] OTHER -> 0

\* x < y; a comparison with NaN is false
lt(x, y) ==
    /\ ~isnan(x)
    /\ ~isnan(y)
    /\ \/ x = ninf /\ y # ninf
       \/ y = inf /\ x # inf
       \/ x.kind = "num" /\ y.kind = "num" /\ x.n * y.d < y.n * x.d

eq(x, y) == ~isnan(x) /\ ~isnan(y) /\ x = y

neg(x) ==
    CASE x.kind = "inf" -> Value("inf", -x.n, 1, 1, 1)
      [] x.kind = "num" -> Rat(-x.n, x.d)
      [] OTHER -> x

add(x, y) ==
    IF isnan(x) \/ isnan(y) THEN nan
    ELSE IF x.kind = "inf" /\ y.kind = "inf" THEN (IF x.n = y.n THEN x ELSE nan)
    ELSE IF x.kind = "inf" THEN x
    ELSE IF y.kind = "inf" THEN y
    ELSE Rat(x.n * y.d + y.n * x.d, x.d * y.d)

sub(x, y) == add(x, neg(y))

div(x, y) ==
    IF isnan(x) \/ isnan(y) THEN nan
    ELSE IF x.kind = "inf" /\ y.kind = "inf" THEN nan
    ELSE IF x.kind = "inf" THEN Value("inf", x.n * (IF y.n < 0 THEN -1 ELSE 1), 1, 1, 1)
    ELSE IF y.kind = "inf" THEN Rat(0, 1)
    ELSE IF y.n = 0 THEN (IF x.n = 0 THEN nan ELSE Value("inf", Sign(x.n), 1, 1, 1))
    ELSE Rat(x.n * y.d, x.d * y.n)

\* The natural logarithm: NaN below 0, -inf at 0, 0 at 1
log(x) ==
    IF isnan(x) THEN nan
    ELSE IF x.kind = "inf" THEN (IF x.n = 1 THEN inf ELSE nan)
    ELSE IF x.n < 0 THEN nan
    ELSE IF x.n = 0 THEN ninf
    ELSE IF x.n = x.d THEN Rat(0, 1)
    ELSE Value("log", 1, 1, x.n, x.d)

log1p(x) == log(add(Rat(1, 1), x))

\* x * y for x a NaN, an infinity or a rational
mul(x, y) ==
    IF isnan(x) \/ isnan(y) THEN nan
    ELSE IF x.kind = "inf" \/ y.kind = "inf"
        THEN (IF sign(x) * sign(y) = 0 THEN nan
              ELSE Value("inf", sign(x) * sign(y), 1, 1, 1))
    ELSE IF y.kind = "num" THEN Rat(x.n * y.n, x.d * y.d)
    ELSE IF x.n = 0 THEN Rat(0, 1)
    ELSE LET c == Rat(x.n * y.n, x.d * y.d)
         IN  Value("log", c.n, c.d, y.ln, y.ld)

where(pred, x, y) == IF pred THEN x ELSE y

\* torch.clamp(self, lo, hi): lo below lo, hi above hi, else the value
clamp(x, lo, hi) == IF lt(x, lo) THEN lo ELSE IF lt(hi, x) THEN hi ELSE x

(***************************************************************************)
(* logit                                                                   *)
(***************************************************************************)
\* eps = 0.0 when eps is None
logit_clamped_default_zero(self, eps) ==
    LET eps_1 == IF eps = NoneValue THEN Rat(0, 1) ELSE eps
    IN  clamp(self, eps_1, sub(Rat(1, 1), eps_1))

\* The value of self after self = torch.clamp(self, lo, hi)
logit_clamped(self, eps) ==
    LET eps_1 == IF eps = NoneValue THEN Rat(-1, 1) ELSE eps
        lo == eps_1
        hi == sub(Rat(1, 1), eps_1)
    IN  clamp(self, lo, hi)

logit(self, eps) ==
    LET self_1 == logit_clamped(self, eps)
    IN  log(div(self_1, sub(Rat(1, 1), self_1)))

(***************************************************************************)
(* _xlog1py: an operand is a Python number or a tensor with a number of    *)
(* dimensions, a device and a dtype; value is one element of it.           *)
(***************************************************************************)
Operand(type, value, ndim, device, dtype) ==
    [type |-> type, value |-> value, ndim |-> ndim, device |-> device,
     dtype |-> dtype]

NoOperand == Operand(None, NoneValue, 0, None, None)

Number(value) == Operand("Number", value, 0, None, None)

Tensor(value, ndim, device, dtype) == Operand("TensorLike", value, ndim, device, dtype)

Operands ==
    { Number(v) : v \in HalfValues } \cup
    { Tensor(v, ndim, device, dtype) :
        v \in HalfValues, ndim \in {0, 1}, device \in {"cpu", "cuda"},
        dtype \in {"float32", "float64"} }

\* isinstance(a, TensorLike), isinstance(a, Number)
is_instance(a, type) == a.type = type

\* utils.is_cpu_scalar_tensor(a)
is_cpu_scalar_tensor(a) ==
    is_instance(a, "TensorLike") /\ a.ndim = 0 /\ a.device = "cpu"

\* prims.scalar_tensor(b, dtype=a.dtype, device=a.device)
scalar_tensor(a, dtype, device) == Tensor(a.value, 0, device, dtype)

\* prims.device_put(b, device=a.device)
device_put(a, device) == [a EXCEPT !.device = device]

\* Two tensors of different devices go together if one is a CPU scalar tensor.
SameDevice(a, b) ==
    (is_instance(a, "TensorLike") /\ is_instance(b, "TensorLike")) =>
        (a.device = b.device \/ is_cpu_scalar_tensor(a) \/ is_cpu_scalar_tensor(b))

\* The assertion left out
xlog1py_assert_nothing(a, b) == TRUE

\* assert isinstance(a, TensorLike) or isinstance(b, TensorLike)
xlog1py_assert(a, b) == is_instance(a, "TensorLike") \/ is_instance(b, "TensorLike")

\* The operands after the if / elif, and the prims called on the way
xlog1py_operands(a, b) ==
    IF is_instance(a, "TensorLike")
        THEN IF is_instance(b, "Number")
                 THEN [a |-> a, b |-> scalar_tensor(b, a.dtype, a.device),
                       ops |-> <<"scalar_tensor">>]
             ELSE IF is_cpu_scalar_tensor(b)
                 THEN [a |-> a, b |-> device_put(b, a.device),
                       ops |-> <<"device_put">>]
             ELSE [a |-> a, b |-> b, ops |-> <<>>]
    ELSE IF is_instance(b, "TensorLike")
        THEN IF is_instance(a, "Number")
                 THEN [a |-> scalar_tensor(a, b.dtype, b.device), b |-> b,
                       ops |-> <<"scalar_tensor">>]
             ELSE IF is_cpu_scalar_tensor(a)
                 THEN [a |-> device_put(a, b.device), b |-> b,
                       ops |-> <<"device_put">>]
             ELSE [a |-> a, b |-> b, ops |-> <<>>]
    ELSE [a |-> a, b |-> b, ops |-> <<>>]

\* The zero guard applied last: it wins over a NaN of b
xlog1py_return_zero_guard_last(a, b) ==
    where(eq(a, Rat(0, 1)), Rat(0, 1), where(isnan(b), nan, mul(a, log1p(b))))

\* rhs = where(eq(a, 0), 0, mul(a, log1p(b))); where(isnan(b), nan, rhs)
xlog1py_return(a, b) ==
    LET rhs == where(eq(a, Rat(0, 1)), Rat(0, 1), mul(a, log1p(b)))
    IN  where(isnan(b), nan, rhs)

(***************************************************************************)
(* Bound of the model: the sample generator yields 0..MaxSamples samples.  *)
(***************************************************************************)
MaxSamples == 2

(***************************************************************************)
(* State                                                                   *)
(***************************************************************************)
VARIABLES
    to_skip,            \* the table given to skip_ops
    opset_fails,        \* the table of opset-conditional rules
    OPS_DB,             \* the operator registry (copy of op_db), decorated
    pc,                 \* where the module load / the runner stands
    skip_i,             \* skip_ops: index of the next rule of to_skip
    op,                 \* test instance: name of the operator (None: no test)
    dtype,              \* test instance: dtype
    expecting_failure,  \* unittest: the instance carries expectedFailure
    nsamples,           \* number of samples generated (-1: not generated)
    ran,                \* the (sample, opset) pairs whose iteration started
    context_manager,    \* the context manager of the current sub-test
    calls,              \* the external calls of the current sub-test
    raised,             \* what the body of the current sub-test raised
    sub_result,         \* how the last finished sub-test was reported
    errors,             \* unittest: some sub-test was reported failed
    expectedFailure,    \* unittest: an expected failure was recorded
    clean,              \* some sub-test body of this test raised nothing
    outcome,            \* how the test instance was reported
    allocated,          \* number of objects the test method has constructed
    model,              \* the SingleOpModel of the current iteration (0: none)
    model_buffer,       \* the io.BytesIO of the current iteration (0: none)
    seen,               \* the models and buffers of the earlier iterations
    fn,                 \* torch._refs.special: the function called (None: none)
    special_pc,         \* where the call stands
    self,               \* logit: self as given
    eps,                \* logit: eps as given
    clamped,            \* logit: self after the clamp
    given,              \* _xlog1py: <<a, b>> as given
    a,                  \* _xlog1py: a
    b,                  \* _xlog1py: b
    ops,                \* _xlog1py: the prims and refs called so far
    result,             \* the value returned
    error               \* the exception raised

vars == <<to_skip, opset_fails, OPS_DB, pc, skip_i, op, dtype, expecting_failure,
          nsamples, ran, context_manager, calls, raised, sub_result, errors,
          expectedFailure, clean, outcome, allocated, model, model_buffer, seen,
          fn, special_pc, self, eps, clamped, given, a, b, ops, result, error>>

special == <<fn, special_pc, self, eps, clamped, given, a, b, ops, result, error>>

objects == <<allocated, model, model_buffer, seen>>

tables == <<to_skip, opset_fails>>

test_vars == <<op, dtype, expecting_failure, nsamples, ran, context_manager,
               calls, raised, sub_result, errors, expectedFailure, clean, outcome,
               allocated, model, model_buffer, seen>>

NoContext == [kind |-> None, expected |-> None]

NoTest ==
    /\ op = None
    /\ dtype = None
    /\ expecting_failure = FALSE
    /\ nsamples = -1
    /\ ran = <<>>
    /\ context_manager = NoContext
    /\ calls = <<>>
    /\ raised = None
    /\ sub_result = None
    /\ errors = FALSE
    /\ expectedFailure = FALSE
    /\ clean = FALSE
    /\ outcome = None
    /\ allocated = 0
    /\ model = 0
    /\ model_buffer = 0
    /\ seen = {}

\* No function of torch._refs.special is being called.
NoCall ==
    /\ fn = None
    /\ special_pc = "idle"
    /\ self = NoneValue
    /\ eps = NoneValue
    /\ clamped = NoneValue
    /\ given = <<NoOperand, NoOperand>>
    /\ a = NoOperand
    /\ b = NoOperand
    /\ ops = <<>>
    /\ result = NoneValue
    /\ error = None

\* The module is being loaded: the tables are declared, OPS_DB is a deep
\* copy of op_db, the class body is about to call skip_ops.
Init ==
    /\ to_skip \in ToSkipTables
    /\ opset_fails \in OpsetFailTables
    /\ OPS_DB = op_db
    /\ pc = "skip_ops"
    /\ skip_i = 1
    /\ NoTest
    /\ NoCall

(***************************************************************************)
(* Suite construction: skip_ops(OPS_DB, "TestConsistency",                 *)
(* "test_output_match", to_skip=EXPECTED_SKIPS_OR_FAILS)                   *)
(***************************************************************************)
\* One iteration of "for decorate_meta in to_skip"; a failed assertion
\* leaves the class body, and the module load, with the AssertionError.
skip_ops_rule ==
    /\ pc = "skip_ops"
    /\ skip_i <= Len(to_skip)
    /\ LET r == skip_ops_iteration(OPS_DB, "TestConsistency", "test_output_match",
                                   to_skip[skip_i])
       IN  IF r.ok
               THEN /\ OPS_DB' = r.all_opinfos
                    /\ skip_i' = skip_i + 1
                    /\ pc' = "skip_ops"
               ELSE /\ pc' = "aborted"
                    /\ UNCHANGED <<OPS_DB, skip_i>>
    /\ UNCHANGED <<special, tables, test_vars>>

\* The loop is over: skip_ops returns wrapped, which returns fn; the ops
\* decorator and instantiate_device_type_tests make the test instances.
skip_ops_return ==
    /\ pc = "skip_ops"
    /\ skip_i > Len(to_skip)
    /\ pc' = "built"
    /\ UNCHANGED <<special, tables, OPS_DB, skip_i, test_vars>>

(***************************************************************************)
(* TestConsistency.test_output_match: helpers                              *)
(***************************************************************************)
OpInfoNamed(name) == OPS_DB[CHOOSE i \in DOMAIN OPS_DB : OPS_DB[i].name = name]

\* The gate left out
not_in_allowlist_never(name) == FALSE

\* op.name not in ALLOWLIST_OP
not_in_allowlist(name) == name \notin ALLOWLIST_OP

\* {fail.op_name: fail for fail in EXPECTED_OPSET_FAILS}: a later rule of
\* the same name takes the place of an earlier one.
expected_opset_fails_name_mapping(fails) ==
    [name \in {fails[i].op_name : i \in DOMAIN fails} |->
        fails[CHOOSE i \in DOMAIN fails :
                /\ fails[i].op_name = name
                /\ \A j \in DOMAIN fails : fails[j].op_name = name => j <= i]]

\* itertools.product(samples, TESTED_OPSETS), samples numbered 1..n
product(n, opsets) ==
    [k \in 1..(n * Len(opsets)) |->
        <<((k - 1) \div Len(opsets)) + 1, opsets[((k - 1) % Len(opsets)) + 1]>>]

nullcontext == [kind |-> "nullcontext", expected |-> None]

assertRaises(cls) == [kind |-> "assertRaises", expected |-> cls]

\* "Skip opset specific fails": the context manager of the sub-test
choose_context_manager(name, fails, opset, dt) ==
    LET mapping == expected_opset_fails_name_mapping(fails)
    IN  IF name \in DOMAIN mapping
            THEN LET fail == mapping[name]
                 IN  IF should_fail(fail, opset, dt)
                         THEN assertRaises(IF fail.exception # None
                                               THEN fail.exception
                                               ELSE "Exception")
                         ELSE nullcontext
            ELSE nullcontext

\* An assertRaises that lets everything pass, a raise or none
context_exit_silent(cm, exc) ==
    IF cm.kind = "assertRaises" THEN None ELSE exc

\* Leaving "with context_manager:" when the body raised exc (None: it
\* raised nothing, also when it left through continue): the exception
\* that leaves the with statement, None when none does.
context_exit(cm, exc) ==
    IF cm.kind = "assertRaises"
        THEN IF exc = None
                 THEN "AssertionError"
                 ELSE IF isinstance(exc, cm.expected) THEN None ELSE exc
        ELSE exc

\* A failed sub-test that ends the method, as without subTest
subTest_exit_stop_on_failure(exc, expecting) ==
    IF exc # None
        THEN IF expecting
                 THEN [result |-> "expected failure", stop |-> TRUE]
                 ELSE [result |-> "failed", stop |-> TRUE]
        ELSE [result |-> "passed", stop |-> FALSE]

\* Leaving "with self.subTest(...):" with exception exc: how the sub-test
\* is reported and whether the test method stops there (unittest stops an
\* instance that expects a failure at the first one it records).
subTest_exit(exc, expecting) ==
    IF exc # None
        THEN IF expecting
                 THEN [result |-> "expected failure", stop |-> TRUE]
                 ELSE [result |-> "failed", stop |-> FALSE]
        ELSE [result |-> "passed", stop |-> FALSE]

(***************************************************************************)
(* The external calls of a sub-test, as the runner makes them              *)
(***************************************************************************)
\* A constructor call returns an object that did not exist before: objects are
\* numbered in the order of their construction, n of them existing already.
\* One wrapper built ahead of the loop and used by every iteration
SingleOpModel_hoisted(n) == 1

\* model = SingleOpModel(op, cpu_sample.kwargs)
SingleOpModel(n) == n + 1

\* model_buffer = io.BytesIO()
BytesIO(n) == n + 1

\* torch.onnx.export(model, inputs, model_buffer, opset_version=opset)
export_call(m, f, opset_version) ==
    [fn |-> "torch.onnx.export", model |-> m, f |-> f,
     opset_version |-> opset_version, keep_initializers_as_inputs |-> None]

load_call == [fn |-> "onnx.load"]

\* onnx.checker.check_model(onnx_model, full_check=True)
check_model_call == [fn |-> "onnx.checker.check_model", full_check |-> TRUE]

\* verification.verify(model, inputs, input_kwargs={}, opset_version=opset, ...)
verify_call(m, opset_version) ==
    [fn |-> "verification.verify", model |-> m, input_kwargs |-> {},
     opset_version |-> opset_version,
     keep_initializers_as_inputs |-> "True", ort_providers |-> ORT_PROVIDERS,
     check_shape |-> TRUE, check_dtype |-> TRUE, flatten |-> TRUE]

\* The bfloat16 branch left out
export_only_never(dt) == FALSE

\* dtype == torch.bfloat16
export_only(dt) == dt = "bfloat16"

(***************************************************************************)
(* TestConsistency.test_output_match, one instance at a time               *)
(***************************************************************************)
cpu_sample == ran[Len(ran)][1]

opset == ran[Len(ran)][2]

\* The runner calls the instance for (op, dtype).  The decorators of the
\* operator that are active for it wrap the method: unittest.skip raises
\* SkipTest before the method is entered, unittest.expectedFailure marks
\* the instance as expecting a failure.
RunTest ==
    /\ pc = "built"
    /\ \E name \in {OPS_DB[i].name : i \in DOMAIN OPS_DB}, dt \in SUPPORTED_DTYPES :
        LET active == active_decorators(OpInfoNamed(name), dt)
        IN  /\ op' = name
            /\ dtype' = dt
            /\ IF "skip" \in active
                   THEN /\ outcome' = "skipped"
                        /\ pc' = "done"
                        /\ UNCHANGED expecting_failure
                   ELSE /\ expecting_failure' = ("expectedFailure" \in active)
                        /\ pc' = "entered"
                        /\ UNCHANGED outcome
    /\ UNCHANGED <<special, objects, tables, OPS_DB, skip_i, nsamples, ran, context_manager, calls,
                   raised, sub_result, errors, expectedFailure, clean>>

\* if op.name not in ALLOWLIST_OP: self.skipTest(...)
AllowlistSkip ==
    /\ pc = "entered"
    /\ not_in_allowlist(op)
    /\ outcome' = "skipped"
    /\ pc' = "done"
    /\ UNCHANGED <<special, objects, tables, OPS_DB, skip_i, op, dtype, expecting_failure, nsamples,
                   ran, context_manager, calls, raised, sub_result, errors,
                   expectedFailure, clean>>

\* The name mapping is built and op.sample_inputs(device, dtype,
\* requires_grad=False) yields the samples.
GenerateSamples ==
    /\ pc = "entered"
    /\ ~not_in_allowlist(op)
    /\ \E n \in 0..MaxSamples : nsamples' = n
    /\ pc' = "loop"
    /\ UNCHANGED <<special, objects, tables, OPS_DB, skip_i, op, dtype, expecting_failure,
                   ran, context_manager, calls, raised, sub_result, errors,
                   expectedFailure, clean, outcome>>

\* The next (cpu_sample, opset) of the product: the wrapper model is
\* built, the sub-test is entered and its context manager chosen.
BeginSubTest ==
    /\ pc = "loop"
    /\ Len(ran) < Len(product(nsamples, TESTED_OPSETS))
    /\ LET pair == product(nsamples, TESTED_OPSETS)[Len(ran) + 1]
       IN  /\ ran' = Append(ran, pair)
           /\ context_manager' = choose_context_manager(op, opset_fails, pair[2], dtype)
    /\ model' = SingleOpModel(allocated)
    /\ allocated' = allocated + 1
    /\ model_buffer' = 0
    /\ seen' = seen \cup ({model, model_buffer} \ {0})
    /\ calls' = <<>>
    /\ raised' = None
    /\ sub_result' = None
    /\ pc' = "body"
    /\ UNCHANGED <<special, tables, OPS_DB, skip_i, op, dtype, expecting_failure, nsamples,
                   errors, expectedFailure, clean, outcome>>

\* The bfloat16 body: export, load, check_model, continue.  Each call may
\* raise; what follows a raise is not called.
BodyExportOnly ==
    /\ pc = "body"
    /\ export_only(dtype)
    /\ model_buffer' = BytesIO(allocated)
    /\ allocated' = allocated + 1
    /\ UNCHANGED <<model, seen>>
    /\ \/ /\ calls' = <<export_call(model, model_buffer', opset), load_call, check_model_call>>
          /\ raised' = None
       \/ \E exc \in Exceptions :
            /\ raised' = exc
            /\ calls' \in { <<export_call(model, model_buffer', opset)>>,
                            <<export_call(model, model_buffer', opset), load_call>>,
                            <<export_call(model, model_buffer', opset), load_call, check_model_call>> }
    /\ pc' = "exit"
    /\ UNCHANGED <<special, tables, OPS_DB, skip_i, op, dtype, expecting_failure, nsamples,
                   ran, context_manager, sub_result, errors, expectedFailure,
                   clean, outcome>>

\* Every other dtype: verification.verify, which may raise.
BodyVerify ==
    /\ pc = "body"
    /\ ~export_only(dtype)
    /\ calls' = <<verify_call(model, opset)>>
    /\ raised' \in {None} \cup Exceptions
    /\ pc' = "exit"
    /\ UNCHANGED <<special, objects, tables, OPS_DB, skip_i, op, dtype, expecting_failure, nsamples,
                   ran, context_manager, sub_result, errors, expectedFailure,
                   clean, outcome>>

\* The with statements are left: the context manager, then the sub-test.
EndSubTest ==
    /\ pc = "exit"
    /\ LET r == subTest_exit(context_exit(context_manager, raised), expecting_failure)
       IN  /\ sub_result' = r.result
           /\ errors' = (errors \/ r.result = "failed")
           /\ expectedFailure' = (expectedFailure \/ r.result = "expected failure")
           /\ pc' = IF r.stop THEN "stopped" ELSE "loop"
    /\ clean' = (clean \/ raised = None)
    /\ UNCHANGED <<special, objects, tables, OPS_DB, skip_i, op, dtype, expecting_failure, nsamples,
                   ran, context_manager, calls, raised, outcome>>

\* The method returns (the product is exhausted, or the sub-test stopped
\* it) and unittest reports the instance.
FinishTest ==
    /\ \/ pc = "stopped"
       \/ /\ pc = "loop"
          /\ Len(ran) = Len(product(nsamples, TESTED_OPSETS))
    /\ outcome' = IF errors THEN "failed"
                  ELSE IF expecting_failure
                      THEN IF expectedFailure THEN "expected failure"
                                              ELSE "unexpected success"
                      ELSE "passed"
    /\ pc' = "done"
    /\ UNCHANGED <<special, objects, tables, OPS_DB, skip_i, op, dtype, expecting_failure, nsamples,
                   ran, context_manager, calls, raised, sub_result, errors,
                   expectedFailure, clean>>

\* The runner goes on to another instance.
NextTest ==
    /\ pc = "done"
    /\ pc' = "built"
    /\ op' = None
    /\ dtype' = None
    /\ expecting_failure' = FALSE
    /\ nsamples' = -1
    /\ ran' = <<>>
    /\ context_manager' = NoContext
    /\ calls' = <<>>
    /\ raised' = None
    /\ sub_result' = None
    /\ errors' = FALSE
    /\ expectedFailure' = FALSE
    /\ clean' = FALSE
    /\ outcome' = None
    /\ allocated' = 0
    /\ model' = 0
    /\ model_buffer' = 0
    /\ seen' = {}
    /\ UNCHANGED <<special, tables, OPS_DB, skip_i>>

Next ==
    \/ skip_ops_rule
    \/ skip_ops_return
    \/ RunTest
    \/ AllowlistSkip
    \/ GenerateSamples
    \/ BeginSubTest
    \/ BodyExportOnly
    \/ BodyVerify
    \/ EndSubTest
    \/ FinishTest
    \/ NextTest

Spec == Init /\ [][Next]_vars

(***************************************************************************)
(* Calls of torch._refs.special.logit and _xlog1py, the test suite at rest *)
(***************************************************************************)
suite == <<tables, OPS_DB, pc, skip_i, test_vars>>

\* logit(self, eps): the clamp, then the logarithm of the odds.
call_logit ==
    /\ special_pc = "idle"
    /\ \E x \in FloatValues :
       \E e \in {NoneValue} \cup {r \in RatValues : 2 * r.n <= r.d} :
            /\ self' = x
            /\ eps' = e
            /\ clamped' = logit_clamped(x, e)
            /\ result' = logit(x, e)
    /\ fn' = "logit"
    /\ special_pc' = "returned"
    /\ UNCHANGED <<suite, given, a, b, ops, error>>

\* _xlog1py(a, b) is entered.
call_xlog1py ==
    /\ special_pc = "idle"
    /\ \E x \in Operands : \E y \in {z \in Operands : SameDevice(x, z)} :
            /\ given' = <<x, y>>
            /\ a' = x
            /\ b' = y
    /\ fn' = "_xlog1py"
    /\ special_pc' = "called"
    /\ UNCHANGED <<suite, self, eps, clamped, ops, result, error>>

\* The assert statement: AssertionError unless an operand is a tensor.
xlog1py_check ==
    /\ special_pc = "called"
    /\ IF xlog1py_assert(a, b)
          THEN special_pc' = "checked" /\ error' = None
          ELSE special_pc' = "raised" /\ error' = "AssertionError"
    /\ UNCHANGED <<suite, fn, self, eps, clamped, given, a, b, ops, result>>

\* The if / elif that prepares the operands.
xlog1py_prepare ==
    /\ special_pc = "checked"
    /\ LET r == xlog1py_operands(a, b)
       IN  /\ a' = r.a
           /\ b' = r.b
           /\ ops' = ops \o r.ops
    /\ special_pc' = "prepared"
    /\ UNCHANGED <<suite, fn, self, eps, clamped, given, result, error>>

\* The two where of the return value.
xlog1py_compute ==
    /\ special_pc = "prepared"
    /\ result' = xlog1py_return(a.value, b.value)
    /\ ops' = ops \o <<"eq", "log1p", "mul", "where", "isnan", "where">>
    /\ special_pc' = "returned"
    /\ UNCHANGED <<suite, fn, self, eps, clamped, given, a, b, error>>

\* The caller takes the value or the exception.
special_done ==
    /\ special_pc \in {"returned", "raised"}
    /\ fn' = None
    /\ special_pc' = "idle"
    /\ self' = NoneValue
    /\ eps' = NoneValue
    /\ clamped' = NoneValue
    /\ given' = <<NoOperand, NoOperand>>
    /\ a' = NoOperand
    /\ b' = NoOperand
    /\ ops' = <<>>
    /\ result' = NoneValue
    /\ error' = None
    /\ UNCHANGED suite

InitSpecial ==
    /\ to_skip = EXPECTED_SKIPS_OR_FAILS
    /\ opset_fails = EXPECTED_OPSET_FAILS
    /\ OPS_DB = op_db
    /\ pc = "skip_ops"
    /\ skip_i = 1
    /\ NoTest
    /\ NoCall

NextSpecial ==
    \/ call_logit
    \/ call_xlog1py
    \/ xlog1py_check
    \/ xlog1py_prepare
    \/ xlog1py_compute
    \/ special_done

SpecSpecial == InitSpecial /\ [][NextSpecial]_vars

(***************************************************************************)
(* Properties                                                              *)
(***************************************************************************)
RegistryKeys == {<<op_db[i].name, op_db[i].variant_test_name>> : i \in DOMAIN op_db}

RegistryNames == {op_db[i].name : i \in DOMAIN op_db}

Unresolved(table) ==
    {i \in DOMAIN table : <<table[i].op_name, table[i].variant_name>> \notin RegistryKeys}

IsPrefix(s, t) == Len(s) <= Len(t) /\ s = SubSeq(t, 1, Len(s))

BodyEntered == nsamples >= 0

\* C1: an operator that is not in ALLOWLIST_OP ends skipped, for every
\* dtype, before any sample is generated and before any export, check or
\* verify call; none of its sub-tests is reported failed.
C1_NotAllowlistedIsSkipped ==
    (op # None /\ op \notin ALLOWLIST_OP) =>
        /\ nsamples = -1
        /\ ran = <<>>
        /\ calls = <<>>
        /\ sub_result = None
        /\ ~errors
        /\ pc \in {"entered", "done"}
        /\ pc = "done" => outcome = "skipped"
        /\ pc = "entered" => outcome = None

C1_Witness ==
    /\ op = "abs"
    /\ dtype = "float32"
    /\ pc = "done"
    /\ outcome = "skipped"

\* C2: a sub-test of an operator with one opset-conditional rule r passes
\* if and only if r predicts a failure and the body raises an exception of
\* the declared kind (any exception when none is declared), or r predicts
\* none and the body raises nothing; a predicted failure whose body raises
\* nothing, also the bfloat16 body that leaves through continue, is
\* reported failed.
C2_PassIffAsPredicted ==
    LET rules == {i \in DOMAIN opset_fails : opset_fails[i].op_name = op}
    IN  (sub_result # None /\ Cardinality(rules) = 1) =>
            LET r == opset_fails[CHOOSE i \in rules : TRUE]
                predicted ==
                    /\ \E i \in DOMAIN r.opsets :
                          \/ r.opsets[i].kind = "int" /\ opset = r.opsets[i].opset
                          \/ r.opsets[i].kind = "before" /\ opset < r.opsets[i].opset
                          \/ r.opsets[i].kind = "after" /\ opset > r.opsets[i].opset
                    /\ r.dtypes = NoneDtypes \/ dtype \in r.dtypes
                declared == raised # None /\ (r.exception = None \/ raised = r.exception)
            IN  /\ sub_result = "passed" <=>
                       \/ predicted /\ declared
                       \/ ~predicted /\ raised = None
                /\ (predicted /\ raised = None) => sub_result = "failed"

C2_Witness ==
    /\ op = "sqrt"
    /\ dtype = "bfloat16"
    /\ opset_fails = EXPECTED_OPSET_FAILS
    /\ sub_result = "failed"
    /\ raised = None
    /\ Len(calls) = 3
    /\ opset = 12

\* C3: with the declared tables, a sub-test of sqrt is expected to raise
\* exactly when the dtype is bfloat16 and the opset is below 13, at every
\* tested opset.
C3_SqrtBfloat16Before13 ==
    /\ \A v \in {TESTED_OPSETS[i] : i \in DOMAIN TESTED_OPSETS}, d \in SUPPORTED_DTYPES :
          (choose_context_manager("sqrt", EXPECTED_OPSET_FAILS, v, d).kind = "assertRaises")
              <=> (d = "bfloat16" /\ v < 13)
    /\ (opset_fails = EXPECTED_OPSET_FAILS /\ op = "sqrt" /\ pc \in {"body", "exit"}) =>
          /\ context_manager.kind \in {"assertRaises", "nullcontext"}
          /\ context_manager.kind = "assertRaises" <=> (dtype = "bfloat16" /\ opset < 13)
          /\ context_manager.kind = "assertRaises" => context_manager.expected = "Exception"

C3_Witness ==
    /\ opset_fails = EXPECTED_OPSET_FAILS
    /\ op = "sqrt"
    /\ dtype = "bfloat16"
    /\ pc = "exit"
    /\ opset = 13
    /\ context_manager.kind = "nullcontext"

\* C4: when a rule of to_skip names an (operator, variant) that is not in
\* the registry, skip_ops stops at that rule with an error: the rules after
\* it are not reached, the suite is not built and no test runs.
C4_SkipOpsFailsFast ==
    Unresolved(to_skip) # {} =>
        LET k == CHOOSE i \in Unresolved(to_skip) : \A j \in Unresolved(to_skip) : i <= j
        IN  /\ pc \in {"skip_ops", "aborted"}
            /\ skip_i <= k
            /\ pc = "aborted" => skip_i = k
            /\ op = None
            /\ outcome = None

C4_Witness ==
    /\ pc = "aborted"
    /\ skip_i = 3
    /\ to_skip[3].op_name = "t"
    /\ to_skip[3].variant_name = "batched"
    /\ Len(OPS_DB[2].decorators) = 3

\* C5 (as claimed): an opset-conditional rule that names an operator
\* missing from the registry aborts the suite build.
C5_OpsetRuleFailsFast ==
    (\E i \in DOMAIN opset_fails : opset_fails[i].op_name \notin RegistryNames) =>
        pc \in {"skip_ops", "aborted"}

\* C6 (as claimed): once the body of an allowlisted instance runs, every
\* pair of samples x TESTED_OPSETS is executed exactly once, whatever the
\* outcomes of the earlier pairs.
C6_EveryPairRuns ==
    (pc = "done" /\ BodyEntered) => ran = product(nsamples, TESTED_OPSETS)

\* C6 (amended): the pairs are executed in the order of the product, each
\* at most once; an instance that carries no expectedFailure decoration
\* executes every pair whatever the earlier outcomes, and an instance that
\* carries one stops at the first sub-test that is left with an exception,
\* recorded as the expected failure, and not before.
C6_EveryPairRunsUnlessExpectedFailure ==
    BodyEntered =>
        /\ IsPrefix(ran, product(nsamples, TESTED_OPSETS))
        /\ pc = "done" =>
              \/ ran = product(nsamples, TESTED_OPSETS)
              \/ /\ expecting_failure
                 /\ sub_result = "expected failure"
                 /\ context_exit(context_manager, raised) # None
        /\ (pc = "done" /\ ~expecting_failure) => ran = product(nsamples, TESTED_OPSETS)
        /\ pc = "stopped" => (expecting_failure /\ sub_result = "expected failure")

C6_Witness ==
    /\ pc = "done"
    /\ ~expecting_failure
    /\ nsamples = 2
    /\ ran = product(2, TESTED_OPSETS)
    /\ errors
    /\ sub_result = "passed"
    /\ outcome = "failed"

\* C7: a bfloat16 sub-test exports, loads and runs the full structural
\* check and never calls verification.verify; a sub-test of any other dtype
\* calls verification.verify, with check_shape, check_dtype and flatten
\* enabled and the CPU execution provider, and nothing else.
C7_ExportOnlyForBfloat16 ==
    pc \in {"exit", "loop", "stopped", "done"} /\ ran # <<>> =>
        IF dtype = "bfloat16"
            THEN /\ Len(calls) \in 1..3
                 /\ calls[1].fn = "torch.onnx.export"
                 /\ Len(calls) >= 2 => calls[2].fn = "onnx.load"
                 /\ Len(calls) >= 3 =>
                        /\ calls[3].fn = "onnx.checker.check_model"
                        /\ calls[3].full_check = TRUE
                 /\ raised = None => Len(calls) = 3
            ELSE /\ Len(calls) = 1
                 /\ calls[1].fn = "verification.verify"
                 /\ calls[1].check_shape = TRUE
                 /\ calls[1].check_dtype = TRUE
                 /\ calls[1].flatten = TRUE
                 /\ calls[1].ort_providers = <<"CPUExecutionProvider">>

C7_Witness ==
    /\ dtype = "bfloat16"
    /\ op = "sqrt"
    /\ pc = "exit"
    /\ raised = None
    /\ Len(calls) = 3
    /\ calls[3].fn = "onnx.checker.check_model"

\* C8 (as claimed): every export the runner asks for, on the bfloat16 path
\* and through verify, is asked with keep_initializers_as_inputs=True at the
\* opset of the sub-test.
C8_ExportsKeepInitializers ==
    \A i \in DOMAIN calls :
        calls[i].fn \in {"torch.onnx.export", "verification.verify"} =>
            /\ calls[i].keep_initializers_as_inputs = "True"
            /\ calls[i].opset_version = opset

\* C9 (as claimed): for ceil with float64 a run in which the sub-test of
\* some tested opset does not raise is not accepted as the expected outcome.
C9_XfailNeedsEveryOpsetToRaise ==
    (pc = "done" /\ op = "ceil" /\ dtype = "float64" /\ clean) =>
        outcome # "expected failure"

\* C9 (amended): for ceil with float64 the xfail marks the whole instance,
\* whatever the opset: the instance is accepted as an expected failure
\* exactly when one of its sub-tests raises, at any tested opset, and is
\* reported as an unexpected success exactly when none does; sub-tests
\* that raised nothing before the one that raises do not change that.
C9_XfailNeedsOneSubTestToRaise ==
    (op = "ceil" /\ dtype = "float64" /\ pc # "built") =>
        /\ expecting_failure
        /\ context_manager.kind \in {None, "nullcontext"}
        /\ sub_result \in {None, "passed", "expected failure"}
        /\ sub_result = "expected failure" <=> (pc \in {"stopped", "done"} /\ raised # None)
        /\ pc = "done" =>
              /\ outcome \in {"expected failure", "unexpected success"}
              /\ outcome = "expected failure" <=> raised # None
              /\ outcome = "unexpected success" <=>
                    (raised = None /\ ran = product(nsamples, TESTED_OPSETS))

C9_Witness ==
    /\ op = "ceil"
    /\ dtype = "float64"
    /\ pc = "done"
    /\ outcome = "expected failure"
    /\ clean
    /\ opset = 10

\* C10: for t with bool no skip, no xfail and no opset rule applies: every
\* sub-test, for every sample and tested opset, goes through
\* verification.verify with success expected, and a raise in any of them
\* is reported as a failure.
C10_TBoolRunsInFull ==
    (op = "t" /\ dtype = "bool" /\ pc # "built") =>
        /\ ~expecting_failure
        /\ outcome # "skipped"
        /\ context_manager.kind \in {None, "nullcontext"}
        /\ calls # <<>> =>
              /\ Len(calls) = 1
              /\ calls[1].fn = "verification.verify"
              /\ calls[1].opset_version = opset
              /\ calls[1].check_shape /\ calls[1].check_dtype
        /\ sub_result # None =>
              /\ sub_result \in {"passed", "failed"}
              /\ sub_result = "failed" <=> raised # None
              /\ raised # None => errors
        /\ pc = "done" =>
              /\ ran = product(nsamples, TESTED_OPSETS)
              /\ errors => outcome = "failed"
              /\ ~errors => outcome = "passed"

C10_Witness ==
    /\ op = "t"
    /\ dtype = "bool"
    /\ pc = "done"
    /\ nsamples = 2
    /\ raised # None
    /\ sub_result = "failed"
    /\ outcome = "failed"

\* C11: skip_ops adds and never removes: while and after it processes a
\* table with no unresolved key, the decorator list of every operator is
\* its list before the call followed by one decoration per processed rule
\* that names the operator, in the order of the table, each with the
\* effect, device filter and dtypes of its rule.
RulesNaming(table, n, name, variant) ==
    LET Names(m) == m.op_name = name /\ m.variant_name = variant
    IN  SelectSeq(SubSeq(table, 1, n), Names)

C11_SkipOpsAppends ==
    Unresolved(to_skip) = {} =>
        \A i \in DOMAIN op_db :
            LET rules == RulesNaming(to_skip, skip_i - 1, op_db[i].name,
                                     op_db[i].variant_test_name)
            IN  /\ OPS_DB[i].name = op_db[i].name
                /\ Len(OPS_DB[i].decorators) = Len(op_db[i].decorators) + Len(rules)
                /\ SubSeq(OPS_DB[i].decorators, 1, Len(op_db[i].decorators))
                      = op_db[i].decorators
                /\ \A k \in DOMAIN rules :
                      LET new == OPS_DB[i].decorators[Len(op_db[i].decorators) + k]
                      IN  /\ new.decorators = rules[k].decorator
                          /\ new.device_type = rules[k].device_type
                          /\ new.dtypes = rules[k].dtypes
                          /\ new.cls_name = "TestConsistency"
                          /\ new.test_name = "test_output_match"

C11_Witness ==
    /\ pc = "built"
    /\ Len(OPS_DB[2].decorators) = 3
    /\ OPS_DB[2].decorators[1].cls_name = "TestNNCOpInfo"
    /\ OPS_DB[2].decorators[2].decorators = "expectedFailure"
    /\ OPS_DB[2].decorators[2].dtypes = {"bfloat16", "float64"}
    /\ OPS_DB[2].decorators[3].decorators = "skip"
    /\ "int8" \in OPS_DB[2].decorators[3].dtypes


\* The wrapper and the buffer of the running iteration were constructed by it:
\* no earlier iteration of the test held them, and the calls are made on them.
FreshObjects ==
    pc \in {"body", "exit"} =>
        /\ model # 0
        /\ model \notin seen
        /\ model_buffer # 0 => (model_buffer \notin seen /\ model_buffer # model)
        /\ \A k \in DOMAIN calls :
              /\ calls[k].fn \in {"torch.onnx.export", "verification.verify"} =>
                    calls[k].model = model
              /\ calls[k].fn = "torch.onnx.export" =>
                    (model_buffer # 0 /\ calls[k].f = model_buffer)

\* A step of the test method, from its entry to its report.
TestStep ==
    pc \in {"built", "entered", "loop", "body", "exit", "stopped"} /\ pc' # "built"

\* C16: running test_output_match leaves the rule tables and OPS_DB unchanged,
\* whatever the operator, the dtype and the sub-test outcomes; every (sample,
\* opset) iteration uses a SingleOpModel it has constructed and, for bfloat16,
\* an export buffer it has constructed, none shared with another sub-test.
C16_TablesUnchangedObjectsFresh ==
    /\ []FreshObjects
    /\ [][TestStep => UNCHANGED <<to_skip, opset_fails, OPS_DB>>]_vars

C16_Witness ==
    /\ pc = "exit"
    /\ dtype = "bfloat16"
    /\ Len(ran) = 3
    /\ raised = None
    /\ Len(calls) = 3
    /\ Cardinality(seen) = 4
    /\ model \notin seen
    /\ calls[1].f = model_buffer


\* C18: when EXPECTED_OPSET_FAILS holds several XfailOpset rules for one
\* operator, a sub-test at (opset, dtype) is expected to raise exactly if at
\* least one rule of that operator has should_fail(opset, dtype); a rule is not
\* dropped because a later rule names the same operator.
C18_OpsetRulesAccumulate ==
    pc \in {"body", "exit"} =>
        (context_manager.kind = "assertRaises"
            <=> \E i \in DOMAIN opset_fails :
                    /\ opset_fails[i].op_name = op
                    /\ should_fail(opset_fails[i], opset, dtype))


\* The unconditional effects that the rules of table give to (name, dt)
Effects(table, name, dt) ==
    { table[i].decorator : i \in
        { j \in DOMAIN table :
            /\ table[j].op_name = name
            /\ table[j].dtypes = NoneDtypes \/ dt \in table[j].dtypes } }

\* Some opset rule of fails matches (name, dt) at a tested opset
OpsetMatched(fails, name, dt) ==
    \E i \in DOMAIN fails : \E k \in DOMAIN TESTED_OPSETS :
        fails[i].op_name = name /\ should_fail(fails[i], TESTED_OPSETS[k], dt)

\* C19: the declared tables are consistent.  Every rule of
\* EXPECTED_SKIPS_OR_FAILS and of EXPECTED_OPSET_FAILS names an operator of
\* ALLOWLIST_OP; no (operator, dtype) over SUPPORTED_DTYPES has both a skip and
\* an xfail, in the tables or among the decorations skip_ops has attached; no
\* pair with a skip or an xfail is matched by an opset rule at a tested opset.
C19_DeclaredTablesConsistent ==
    (to_skip = EXPECTED_SKIPS_OR_FAILS /\ opset_fails = EXPECTED_OPSET_FAILS
        /\ pc \notin {"skip_ops", "aborted"}) =>
        /\ \A i \in DOMAIN to_skip : to_skip[i].op_name \in ALLOWLIST_OP
        /\ \A i \in DOMAIN opset_fails : opset_fails[i].op_name \in ALLOWLIST_OP
        /\ \A i \in DOMAIN OPS_DB : \A dt \in SUPPORTED_DTYPES :
              LET name == OPS_DB[i].name
                  effects == Effects(to_skip, name, dt)
              IN  /\ Cardinality(effects) <= 1
                  /\ effects = active_decorators(OPS_DB[i], dt)
                                    \cap {skip_decorator, xfail_decorator}
                  /\ effects # {} => ~OpsetMatched(opset_fails, name, dt)

C19_Witness ==
    /\ to_skip = EXPECTED_SKIPS_OR_FAILS
    /\ opset_fails = EXPECTED_OPSET_FAILS
    /\ pc = "body"
    /\ op = "sqrt"
    /\ dtype = "bfloat16"
    /\ context_manager.kind = "assertRaises"
    /\ ~expecting_failure
    /\ Effects(to_skip, "sqrt", "bool") = {skip_decorator}
    /\ Effects(to_skip, "ceil", "float64") = {xfail_decorator}


(***************************************************************************)
(* Properties of torch._refs.special                                       *)
(***************************************************************************)
\* C12 as stated: with eps unset logit gives the result of eps = -1.0, and
\* the value that enters the logarithm of the odds is self itself, for
\* every self.
C12_LogitDefaultNoClamp ==
    (fn = "logit" /\ eps = NoneValue) =>
        /\ result = logit(self, Rat(-1, 1))
        /\ clamped = self

\* C12 amended: with eps unset logit gives the result of eps = -1.0 for
\* every self; self is clamped to [-1, 2], which leaves it unchanged when it
\* is NaN or lies in [-1, 2] and otherwise replaces it by the nearer end; the
\* result is that of log(self / (1 - self)) without the clamp, NaN outside
\* [0, 1].
C12_LogitDefaultClampsToMinusOneTwo ==
    (fn = "logit" /\ eps = NoneValue) =>
        /\ result = logit(self, Rat(-1, 1))
        /\ clamped = (IF lt(self, Rat(-1, 1)) THEN Rat(-1, 1)
                      ELSE IF lt(Rat(2, 1), self) THEN Rat(2, 1)
                      ELSE self)
        /\ result = log(div(self, sub(Rat(1, 1), self)))
        /\ (lt(self, Rat(0, 1)) \/ lt(Rat(1, 1), self)) => isnan(result)

C12_Witness ==
    /\ fn = "logit"
    /\ eps = NoneValue
    /\ self = Rat(3, 1)
    /\ clamped = Rat(2, 1)
    /\ isnan(result)


\* C13: in xlog1py a NaN of b wins over the zero guard.  The result is NaN
\* when b is NaN, whatever a is, a == 0 included; otherwise 0 when a == 0,
\* so xlog1py(0, b) is 0 for every finite b > -1; otherwise a * log1p(b).
C13_NanOverridesZeroGuard ==
    (fn = "_xlog1py" /\ special_pc = "returned") =>
        /\ isnan(b.value) => isnan(result)
        /\ (~isnan(b.value) /\ eq(a.value, Rat(0, 1))) => result = Rat(0, 1)
        /\ (~isnan(b.value) /\ ~eq(a.value, Rat(0, 1))) =>
                result = mul(a.value, log1p(b.value))
        /\ a.value = given[1].value
        /\ b.value = given[2].value

C13_Witness ==
    /\ fn = "_xlog1py"
    /\ special_pc = "returned"
    /\ given[1].value = Rat(0, 1)
    /\ isnan(given[2].value)
    /\ isnan(result)

\* C14: _xlog1py given two Python numbers raises before any cast, device
\* transfer or arithmetic is done; given a tensor for a or for b, the check
\* does not raise.
C14_TwoNumbersRaiseFirst ==
    (fn = "_xlog1py" /\ special_pc # "called") =>
        IF is_instance(given[1], "Number") /\ is_instance(given[2], "Number")
            THEN /\ special_pc = "raised"
                 /\ error = "AssertionError"
                 /\ ops = <<>>
                 /\ <<a, b>> = given
                 /\ result = NoneValue
            ELSE /\ special_pc # "raised"
                 /\ error = None

C14_Witness ==
    /\ fn = "_xlog1py"
    /\ special_pc = "raised"
    /\ is_instance(given[1], "Number")
    /\ is_instance(given[2], "Number")
    /\ error = "AssertionError"
    /\ ops = <<>>

\* A Python number or a zero-dimensional CPU tensor
ScalarLike(operand) == is_instance(operand, "Number") \/ is_cpu_scalar_tensor(operand)

\* C17: after the preparation of the operands, when one operand was given as
\* a number or a zero-dimensional CPU tensor and the other as a tensor, both
\* are tensors on one device: the scalar side has been put on the device of
\* the other (a number with its dtype too), be it a or b.
C17_PreparationSymmetric ==
    (fn = "_xlog1py" /\ special_pc \in {"prepared", "returned"}) =>
        /\ (ScalarLike(given[1]) /\ is_instance(given[2], "TensorLike")
                /\ ~ScalarLike(given[2])) =>
                /\ is_instance(a, "TensorLike")
                /\ a.device = given[2].device
                /\ is_instance(given[1], "Number") => a.dtype = given[2].dtype
                /\ b = given[2]
        /\ (ScalarLike(given[2]) /\ is_instance(given[1], "TensorLike")
                /\ ~ScalarLike(given[1])) =>
                /\ is_instance(b, "TensorLike")
                /\ b.device = given[1].device
                /\ is_instance(given[2], "Number") => b.dtype = given[1].dtype
                /\ a = given[1]

=============================================================================
